---- MODULE Spec2Model ----
(***************************************************************************)
(* Model of generate_test_data.py: the fixture generator that creates      *)
(* pkgs/pkgNNN/{manifest.json,files/f<j>.bin} and the index packages.txt.  *)
(*                                                                         *)
(* Strings are sequences of one-character strings, so that formatting,     *)
(* path joining and line splitting are computed and not assumed.  The file *)
(* system is a set of directory paths and a map from file paths to file    *)
(* contents.  A write either appends all of its argument or raises; the    *)
(* content of a file is what has been written to its handle.  The random   *)
(* bytes of a payload are not modelled, only their number.                 *)
(***************************************************************************)
EXTENDS Integers, Sequences, FiniteSets, TLC

VARIABLES
    dirs,       \* the directories of the working directory (set of paths)
    files,      \* the regular files: path -> [data, size]
    handles,    \* the open file handles, innermost `with` last
    pc,         \* the position of the run in generate_test_data
    N,          \* num_packages of the current run
    M,          \* num_files_per_package of the current run
    i,          \* the outer loop variable
    j,          \* the inner loop variable
    pkg_name,   \* the local pkg_name of the current iteration
    err,        \* the exception that is propagating, "none" when there is none
    runs,       \* how many runs were started
    prev        \* the parameters, outcome and file system of the run before

vars == <<dirs, files, handles, pc, N, M, i, j, pkg_name, err, runs, prev>>

---------------------------------------------------------------------------
(* Bounds of the model *)

MaxN == 2

MaxM == 1

MaxRuns == 2

MaxIndex == 1001

(* Program constants *)

PAD_WIDTH == 3

SIZE_BASE == 1024

RANDINT_HI == 4096

\* The draw of random.randint(0, 4096) the general specification follows: the
\* size of a payload decides nothing of the control flow.  SpecSize follows
\* every draw.
RandDraws == {RANDINT_HI}

AllDraws == 0..RANDINT_HI

---------------------------------------------------------------------------
(* String literals of the program *)

PKGS == <<"p","k","g","s">>

PACKAGES_TXT == <<"p","a","c","k","a","g","e","s",".","t","x","t">>

FILES == <<"f","i","l","e","s">>

MANIFEST_JSON == <<"m","a","n","i","f","e","s","t",".","j","s","o","n">>

PKG_PREFIX == <<"p","k","g">>

BIN_SUFFIX == <<".","b","i","n">>

MANIFEST_HEAD == <<"{","\"","n","a","m","e","\"",":","\"">>

MANIFEST_TAIL == <<"\"",",","\"","v","e","r","s","i","o","n","\"",":","\"",
                   "1",".","0",".","0","\"","}","\n">>

\* Paths of the working directory the program has nothing to do with.
NOTES_TXT == <<"n","o","t","e","s",".","t","x","t">>

DATA_DIR == <<"d","a","t","a">>

STALE_TEXT == <<"o","l","d","\n","s","t","a","l","e","\n">>

---------------------------------------------------------------------------
(* Formatting and paths *)

DigitChar(d) ==
    CASE d = 0 -> "0" [] d = 1 -> "1" [] d = 2 -> "2" [] d = 3 -> "3"
      [] d = 4 -> "4" [] d = 5 -> "5" [] d = 6 -> "6" [] d = 7 -> "7"
      [] d = 8 -> "8" [] d = 9 -> "9"

RECURSIVE Decimal(_)
\* str(n) for n >= 0: the decimal digits, most significant first.
Decimal(n) ==
    IF n < 10 THEN <<DigitChar(n)>>
    ELSE Decimal(n \div 10) \o <<DigitChar(n % 10)>>

RECURSIVE ZeroPad(_, _)
\* Left-pads with "0" up to width w; a longer string is left as it is.
ZeroPad(s, w) == IF Len(s) >= w THEN s ELSE ZeroPad(<<"0">> \o s, w)

\* Truncating variant: keeps the last PAD_WIDTH digits only.
Format03dTrunc(n) == ZeroPad(Decimal(n % 1000), PAD_WIDTH)

\* f"{n:03d}"
Format03d(n) == ZeroPad(Decimal(n), PAD_WIDTH)

\* f"pkg{i:03d}"
PkgName(n) == PKG_PREFIX \o Format03d(n)

\* f"f{j}.bin"
FileName(n) == <<"f">> \o Decimal(n) \o BIN_SUFFIX

\* os.path.join(a, b) for a relative b and a non-empty a without a final "/".
Join(a, b) == a \o <<"/">> \o b

\* f'{{"name":"{pkg_name}","version":"1.0.0"}}\n'
ManifestText(name) == MANIFEST_HEAD \o name \o MANIFEST_TAIL

\* Variant of line 11 that forgets the root directory.
pkg_dir_bare == pkg_name

\* The locals pkg_dir and files_dir of the current iteration.
pkg_dir == Join(PKGS, pkg_name)

files_dir == Join(pkg_dir, FILES)

manifest_path == Join(pkg_dir, MANIFEST_JSON)

file_path == Join(files_dir, FileName(j))

---------------------------------------------------------------------------
(* The file system *)

SlashAt(p) == {k \in 1..Len(p) : p[k] = "/"}

LastSlash(p) == IF SlashAt(p) = {} THEN 0
                ELSE CHOOSE k \in SlashAt(p) : \A l \in SlashAt(p) : l <= k

\* The parent path; <<>> is the working directory itself.
Dirname(p) == IF LastSlash(p) = 0 THEN <<>> ELSE SubSeq(p, 1, LastSlash(p) - 1)

Basename(p) == SubSeq(p, LastSlash(p) + 1, Len(p))

\* p and every ancestor of p below the working directory.
Ancestors(p) == {SubSeq(p, 1, k - 1) : k \in SlashAt(p)} \cup {p}

\* os.path.exists
Exists(p) == p \in dirs \/ p \in DOMAIN files

EmptyFile == [data |-> <<>>, size |-> 0]

\* A text file of content t (one byte per character).
TextFile(t) == [data |-> t, size |-> Len(t)]

\* The content of the unrelated file notes.txt.
NotesFile == TextFile(<<"x">>)

\* The exception os.makedirs(p, exist_ok) raises by itself, "ok" when none.
MakedirsError(p, exist_ok) ==
    IF p \in dirs THEN (IF exist_ok THEN "ok" ELSE "FileExistsError")
    ELSE IF p \in DOMAIN files THEN "FileExistsError"
    ELSE IF \E a \in Ancestors(p) : a \in DOMAIN files THEN "NotADirectoryError"
    ELSE "ok"

\* The exception open(p, "w") raises by itself, "ok" when none.
OpenError(p) ==
    IF p \in dirs THEN "IsADirectoryError"
    ELSE IF Dirname(p) # <<>> /\ Dirname(p) \notin dirs THEN "FileNotFoundError"
    ELSE "ok"

\* Variant: open(p, "a"), which keeps the content of an existing file.
TruncatedKeep(f, p) ==
    [q \in DOMAIN f \cup {p} |-> IF q \in DOMAIN f THEN f[q] ELSE EmptyFile]

\* open(p, "w"): creates the file or truncates it.
Truncated(f, p) ==
    [q \in DOMAIN f \cup {p} |-> IF q = p THEN EmptyFile ELSE f[q]]

\* handle.write(s) of a text file.
WithText(f, p, s) ==
    [f EXCEPT ![p] = [data |-> @.data \o s, size |-> @.size + Len(s)]]

\* handle.write(os.urandom(n)) of a binary file.
WithBytes(f, p, n) == [f EXCEPT ![p] = [data |-> @.data, size |-> @.size + n]]

\* What a call records of the run before it: its parameters, how it ended,
\* whether every run so far returned normally, whether pkgs/ exists at the
\* call and, when the run before returned normally, the directories and the
\* files it left with their text (not the payload bytes).
Snapshot ==
    [N |-> N, M |-> M, pc |-> pc,
     clean |-> (pc = "idle" \/ (pc = "done" /\ prev.clean)),
     fresh |-> ~Exists(PKGS),
     dirs |-> IF pc = "done" THEN dirs ELSE {},
     files |-> IF pc = "done" THEN [q \in DOMAIN files |-> files[q].data]
               ELSE <<>>]

---------------------------------------------------------------------------
(* Values the statements of the program compute *)

\* Variant of line 13 without exist_ok.
EXIST_OK_DEFAULT == FALSE

\* The exist_ok argument of os.makedirs(files_dir, exist_ok=True).
EXIST_OK == TRUE

\* Variant of line 22 that forgets the base.
SizeNoBase(r) == r

\* size = 1024 + random.randint(0, 4096), for the draw r.
Size(r) == SIZE_BASE + r

\* Variant of line 25 that writes the package name, not its path.
IndexLineName == pkg_name \o <<"\n">>

\* f"{pkg_dir}\n"
IndexLine == pkg_dir \o <<"\n">>

---------------------------------------------------------------------------
(* The run *)

Init ==
    /\ dirs = {DATA_DIR}
    /\ \E stale \in BOOLEAN :
         files = [q \in {NOTES_TXT} \cup (IF stale THEN {PACKAGES_TXT} ELSE {}) |->
                    IF q = PACKAGES_TXT
                    THEN TextFile(STALE_TEXT)
                    ELSE NotesFile]
    /\ handles = <<>>
    /\ pc = "idle"
    /\ N = 0
    /\ M = 0
    /\ i = 0
    /\ j = 0
    /\ pkg_name = <<>>
    /\ err = "none"
    /\ runs = 0
    /\ prev = [N |-> 0, M |-> 0, pc |-> "idle", clean |-> TRUE, fresh |-> TRUE,
               dirs |-> {}, files |-> <<>>]

\* generate_test_data(n, m) is called: by __main__, or again by a later process.
Call(n, m) ==
    /\ pc \in {"idle", "done", "failed"}
    /\ N' = n
    /\ M' = m
    /\ i' = 0
    /\ j' = 0
    /\ pkg_name' = <<>>
    /\ err' = "none"
    /\ runs' = runs + 1
    /\ prev' = Snapshot
    /\ pc' = "exists"
    /\ UNCHANGED <<dirs, files, handles>>

Start ==
    /\ runs < MaxRuns
    /\ \E n \in 1..MaxN, m \in 0..MaxM : Call(n, m)

\* line 5: if not os.path.exists("pkgs")
CheckPkgs ==
    /\ pc = "exists"
    /\ pc' = IF Exists(PKGS) THEN "open_index" ELSE "mkroot"
    /\ UNCHANGED <<dirs, files, handles, N, M, i, j, pkg_name, err, runs, prev>>

\* line 6: os.makedirs("pkgs")
MakeRoot ==
    /\ pc = "mkroot"
    /\ LET e == MakedirsError(PKGS, FALSE) IN
         IF e = "ok"
         THEN /\ dirs' = dirs \cup Ancestors(PKGS)
              /\ pc' = "open_index"
              /\ err' = err
         ELSE /\ dirs' = dirs
              /\ pc' = "unwind"
              /\ err' = e
    /\ UNCHANGED <<files, handles, N, M, i, j, pkg_name, runs, prev>>

\* line 8: with open("packages.txt", "w") as f
OpenIndex ==
    /\ pc = "open_index"
    /\ LET e == OpenError(PACKAGES_TXT) IN
         IF e = "ok"
         THEN /\ files' = Truncated(files, PACKAGES_TXT)
              /\ handles' = Append(handles, PACKAGES_TXT)
              /\ pc' = "for_i"
              /\ err' = err
         ELSE /\ UNCHANGED <<files, handles>>
              /\ pc' = "unwind"
              /\ err' = e
    /\ UNCHANGED <<dirs, N, M, i, j, pkg_name, runs, prev>>

\* line 9: for i in range(1, num_packages + 1)
ForI ==
    /\ pc = "for_i"
    /\ i' = i + 1
    /\ pc' = IF i + 1 < N + 1 THEN "fmt" ELSE "close_index"
    /\ UNCHANGED <<dirs, files, handles, N, M, j, pkg_name, err, runs, prev>>

\* Variant that writes the index line at the top of the iteration.
FmtListFirst ==
    /\ pc = "fmt"
    /\ pkg_name' = PkgName(i)
    /\ j' = 0
    /\ files' = WithText(files, PACKAGES_TXT, Join(PKGS, PkgName(i)) \o <<"\n">>)
    /\ pc' = "makedirs"
    /\ UNCHANGED <<dirs, handles, N, M, i, err, runs, prev>>

\* lines 10-12: pkg_name, pkg_dir, files_dir
Fmt ==
    /\ pc = "fmt"
    /\ pkg_name' = PkgName(i)
    /\ j' = 0
    /\ pc' = "makedirs"
    /\ UNCHANGED <<dirs, files, handles, N, M, i, err, runs, prev>>

\* line 13: os.makedirs(files_dir, exist_ok=True)
MakeDirs ==
    /\ pc = "makedirs"
    /\ LET e == MakedirsError(files_dir, EXIST_OK) IN
         IF e = "ok"
         THEN /\ dirs' = dirs \cup Ancestors(files_dir)
              /\ pc' = "open_manifest"
              /\ err' = err
         ELSE /\ dirs' = dirs
              /\ pc' = "unwind"
              /\ err' = e
    /\ UNCHANGED <<files, handles, N, M, i, j, pkg_name, runs, prev>>

\* line 15: with open(os.path.join(pkg_dir, "manifest.json"), "w") as manifest
OpenManifest ==
    /\ pc = "open_manifest"
    /\ LET e == OpenError(manifest_path) IN
         IF e = "ok"
         THEN /\ files' = Truncated(files, manifest_path)
              /\ handles' = Append(handles, manifest_path)
              /\ pc' = "write_manifest"
              /\ err' = err
         ELSE /\ UNCHANGED <<files, handles>>
              /\ pc' = "unwind"
              /\ err' = e
    /\ UNCHANGED <<dirs, N, M, i, j, pkg_name, runs, prev>>

\* line 16: manifest.write(...)
WriteManifest ==
    /\ pc = "write_manifest"
    /\ files' = WithText(files, manifest_path, ManifestText(pkg_name))
    /\ pc' = "close_manifest"
    /\ UNCHANGED <<dirs, handles, N, M, i, j, pkg_name, err, runs, prev>>

\* Variant of the end of the manifest block that leaves the handle open.
CloseManifestLeak ==
    /\ pc = "close_manifest"
    /\ pc' = "for_j"
    /\ UNCHANGED <<dirs, files, handles, N, M, i, j, pkg_name, err, runs, prev>>

\* line 15-16: the end of the manifest's with block closes the handle
CloseManifest ==
    /\ pc = "close_manifest"
    /\ handles' = SubSeq(handles, 1, Len(handles) - 1)
    /\ pc' = "for_j"
    /\ UNCHANGED <<dirs, files, N, M, i, j, pkg_name, err, runs, prev>>

\* Variant of line 18 with range(1, num_files_per_package).
ForJShort ==
    /\ pc = "for_j"
    /\ j' = j + 1
    /\ pc' = IF j + 1 < M THEN "open_bin" ELSE "write_index"
    /\ UNCHANGED <<dirs, files, handles, N, M, i, pkg_name, err, runs, prev>>

\* line 18: for j in range(1, num_files_per_package + 1)
ForJ ==
    /\ pc = "for_j"
    /\ j' = j + 1
    /\ pc' = IF j + 1 < M + 1 THEN "open_bin" ELSE "write_index"
    /\ UNCHANGED <<dirs, files, handles, N, M, i, pkg_name, err, runs, prev>>

\* lines 19-21: with open(file_path, "wb") as bin_file
OpenBin ==
    /\ pc = "open_bin"
    /\ LET e == OpenError(file_path) IN
         IF e = "ok"
         THEN /\ files' = Truncated(files, file_path)
              /\ handles' = Append(handles, file_path)
              /\ pc' = "write_bin"
              /\ err' = err
         ELSE /\ UNCHANGED <<files, handles>>
              /\ pc' = "unwind"
              /\ err' = e
    /\ UNCHANGED <<dirs, N, M, i, j, pkg_name, runs, prev>>

\* lines 22-23: size = 1024 + random.randint(0, 4096); write(os.urandom(size))
WriteBinDraw(r) ==
    /\ pc = "write_bin"
    /\ files' = WithBytes(files, file_path, Size(r))
    /\ pc' = "close_bin"
    /\ UNCHANGED <<dirs, handles, N, M, i, j, pkg_name, err, runs, prev>>

WriteBin == \E r \in RandDraws : WriteBinDraw(r)

\* lines 21-23: the end of the payload's with block closes the handle
CloseBin ==
    /\ pc = "close_bin"
    /\ handles' = SubSeq(handles, 1, Len(handles) - 1)
    /\ pc' = "for_j"
    /\ UNCHANGED <<dirs, files, N, M, i, j, pkg_name, err, runs, prev>>

\* line 25: f.write(f"{pkg_dir}\n")
WriteIndex ==
    /\ pc = "write_index"
    /\ files' = WithText(files, PACKAGES_TXT, IndexLine)
    /\ pc' = "for_i"
    /\ UNCHANGED <<dirs, handles, N, M, i, j, pkg_name, err, runs, prev>>

\* lines 8-25: the end of the outer with block closes f; the function returns
CloseIndex ==
    /\ pc = "close_index"
    /\ handles' = SubSeq(handles, 1, Len(handles) - 1)
    /\ pc' = "done"
    /\ UNCHANGED <<dirs, files, N, M, i, j, pkg_name, err, runs, prev>>

---------------------------------------------------------------------------
(* I/O failures: the operating system refuses an operation (permission,    *)
(* disk full).  The refused operation has no effect, except that           *)
(* os.makedirs may have created the leading directories before the one     *)
(* that is refused.                                                        *)

Raise(e) ==
    /\ pc' = "unwind"
    /\ err' = e

FailMakeRoot ==
    /\ pc = "mkroot"
    /\ Raise("OSError")
    /\ UNCHANGED <<dirs, files, handles, N, M, i, j, pkg_name, runs, prev>>

FailOpen ==
    /\ pc \in {"open_index", "open_manifest", "open_bin"}
    /\ Raise("OSError")
    /\ UNCHANGED <<dirs, files, handles, N, M, i, j, pkg_name, runs, prev>>

FailMakeDirs ==
    /\ pc = "makedirs"
    /\ \E made \in {{}, Ancestors(pkg_dir)} : dirs' = dirs \cup made
    /\ Raise("OSError")
    /\ UNCHANGED <<files, handles, N, M, i, j, pkg_name, runs, prev>>

FailWrite ==
    /\ pc \in {"write_manifest", "write_bin", "write_index"}
    /\ Raise("OSError")
    /\ UNCHANGED <<dirs, files, handles, N, M, i, j, pkg_name, runs, prev>>

\* Variant that swallows the exception and goes on with the next package.
UnwindResume ==
    /\ pc = "unwind"
    /\ pc' = IF handles = <<>> THEN "failed" ELSE "for_i"
    /\ handles' = IF handles = <<>> THEN handles ELSE <<handles[1]>>
    /\ UNCHANGED <<dirs, files, N, M, i, j, pkg_name, err, runs, prev>>

\* The exception leaves the with blocks, innermost first; each closes its
\* handle.  With no block left it leaves generate_test_data.
Unwind ==
    /\ pc = "unwind"
    /\ IF handles = <<>>
       THEN /\ pc' = "failed"
            /\ handles' = handles
       ELSE /\ pc' = pc
            /\ handles' = SubSeq(handles, 1, Len(handles) - 1)
    /\ UNCHANGED <<dirs, files, N, M, i, j, pkg_name, err, runs, prev>>

Next ==
    \/ Start
    \/ CheckPkgs
    \/ MakeRoot
    \/ OpenIndex
    \/ ForI
    \/ Fmt
    \/ MakeDirs
    \/ OpenManifest
    \/ WriteManifest
    \/ CloseManifest
    \/ ForJ
    \/ OpenBin
    \/ WriteBin
    \/ CloseBin
    \/ WriteIndex
    \/ CloseIndex
    \/ FailMakeRoot
    \/ FailOpen
    \/ FailMakeDirs
    \/ FailWrite
    \/ Unwind

Spec == Init /\ [][Next]_vars

---------------------------------------------------------------------------
(* The iterations of one run of generate_test_data(MaxIndex, 0) with no    *)
(* I/O failure, each taken from the state the run is in at the top of the  *)
(* iteration: the package names up to and beyond the padding width.        *)

RECURSIVE IndexFromTo(_, _)
\* What the iterations lo..hi write to packages.txt.
IndexFromTo(lo, hi) ==
    IF lo > hi THEN <<>>
    ELSE IF lo = hi THEN Join(PKGS, PkgName(lo)) \o <<"\n">>
    ELSE LET mid == (lo + hi) \div 2
         IN  IndexFromTo(lo, mid) \o IndexFromTo(mid + 1, hi)

\* What the iterations 1..n have written to packages.txt.
IndexUpTo(n) == IndexFromTo(1, n)

\* The directories after the iterations 1..n of a run that began with no pkgs/.
DirsAfter(n) ==
    {DATA_DIR, PKGS}
      \cup {Join(PKGS, PkgName(k)) : k \in 1..n}
      \cup {Join(Join(PKGS, PkgName(k)), FILES) : k \in 1..n}

\* The files after the iterations 1..n of such a run with no payload files.
FilesAfter(n) ==
    LET manifests == {Join(Join(PKGS, PkgName(k)), MANIFEST_JSON) : k \in 1..n}
    IN  [q \in {NOTES_TXT, PACKAGES_TXT} \cup manifests |->
           IF q = NOTES_TXT THEN NotesFile
           ELSE IF q = PACKAGES_TXT THEN TextFile(IndexUpTo(n))
           ELSE TextFile(ManifestText(PKG_PREFIX \o SubSeq(q, 9, Len(q) - 14)))]

InitName ==
    \E n \in 1..MaxIndex :
        /\ dirs = DirsAfter(n - 1)
        /\ files = FilesAfter(n - 1)
        /\ handles = <<PACKAGES_TXT>>
        /\ pc = "fmt"
        /\ N = MaxIndex
        /\ M = 0
        /\ i = n
        /\ j = IF n = 1 THEN 0 ELSE 1
        /\ pkg_name = IF n = 1 THEN <<>> ELSE PkgName(n - 1)
        /\ err = "none"
        /\ runs = 1
        /\ prev = [N |-> 0, M |-> 0, pc |-> "idle", clean |-> TRUE,
                   fresh |-> TRUE, dirs |-> {}, files |-> <<>>]

NextName ==
    \/ Fmt
    \/ MakeDirs
    \/ OpenManifest
    \/ WriteManifest
    \/ CloseManifest
    \/ ForJ
    \/ WriteIndex
    \/ ForI
    \/ CloseIndex

SpecName == InitName /\ [][NextName]_vars

\* InitName holds only states of a run: in the general specification the top
\* of iteration i of a first run with no payload files is the state it gives.
LoopStateOfRun ==
    (pc = "fmt" /\ runs = 1 /\ M = 0) =>
        /\ dirs = DirsAfter(i - 1)
        /\ files = FilesAfter(i - 1)
        /\ handles = <<PACKAGES_TXT>>
        /\ pkg_name = (IF i = 1 THEN <<>> ELSE PkgName(i - 1))
        /\ j = (IF i = 1 THEN 0 ELSE 1)

(* One run of generate_test_data(1, 1) with no I/O failure and every draw  *)
(* of random.randint(0, 4096).                                             *)

StartSize ==
    /\ runs = 0
    /\ Call(1, 1)

WriteBinAll == \E r \in AllDraws : WriteBinDraw(r)

NextSize ==
    \/ StartSize
    \/ CheckPkgs
    \/ MakeRoot
    \/ OpenIndex
    \/ ForI
    \/ Fmt
    \/ MakeDirs
    \/ OpenManifest
    \/ WriteManifest
    \/ CloseManifest
    \/ ForJ
    \/ OpenBin
    \/ WriteBinAll
    \/ CloseBin
    \/ WriteIndex
    \/ CloseIndex

SpecSize == Init /\ [][NextSize]_vars

---------------------------------------------------------------------------
(* Reading the file system back *)

\* The package directories: the directories directly under pkgs/.
PackageDirs == {d \in dirs : Dirname(d) = PKGS}

FilesIn(d) == {p \in DOMAIN files : Dirname(p) = d}

SubdirsIn(d) == {p \in dirs : Dirname(p) = d}

NewlineAt(t) == {k \in 1..Len(t) : t[k] = "\n"}

RECURSIVE SplitLines(_)
\* The lines of a text, without their newlines; a final piece with no
\* newline is a line too.
SplitLines(t) ==
    IF t = <<>> THEN <<>>
    ELSE IF NewlineAt(t) = {} THEN <<t>>
    ELSE LET k == CHOOSE x \in NewlineAt(t) : \A y \in NewlineAt(t) : x <= y
         IN  <<SubSeq(t, 1, k - 1)>> \o SplitLines(SubSeq(t, k + 1, Len(t)))

IndexText == files[PACKAGES_TXT].data

IndexLines == SplitLines(IndexText)

DigitChars == {"0", "1", "2", "3", "4", "5", "6", "7", "8", "9"}

DigitVal(c) ==
    CASE c = "0" -> 0 [] c = "1" -> 1 [] c = "2" -> 2 [] c = "3" -> 3
      [] c = "4" -> 4 [] c = "5" -> 5 [] c = "6" -> 6 [] c = "7" -> 7
      [] c = "8" -> 8 [] c = "9" -> 9

RECURSIVE ParseDecimal(_)
ParseDecimal(s) ==
    IF s = <<>> THEN 0
    ELSE 10 * ParseDecimal(SubSeq(s, 1, Len(s) - 1)) + DigitVal(s[Len(s)])

\* The path the index lists for package k, spelled out.
ListedPath(k) == <<"p","k","g","s","/">> \o PkgName(k)

\* The payload file names f1.bin .. fm.bin of a files/ directory.
PayloadPaths(fd, m) == {Join(fd, FileName(k)) : k \in 1..m}

\* The current run began with no pkgs/ tree.
StartedFresh == runs >= 1 /\ prev.fresh

\* d holds exactly one manifest.json, one files/ and nothing else directly.
OneManifest(d) ==
    /\ FilesIn(d) = {Join(d, MANIFEST_JSON)}
    /\ SubdirsIn(d) = {Join(d, FILES)}
    /\ SubdirsIn(Join(d, FILES)) = {}

---------------------------------------------------------------------------
(* The claims *)

\* C1: after a run that began with no pkgs/ tree and returned normally,
\* exactly N package directories exist (those of indices 1..N), each with
\* exactly one manifest.json and a files/ directory holding exactly the M
\* payload files f1.bin .. fM.bin.
C1_TreeShape ==
    (pc = "done" /\ StartedFresh) =>
        /\ PackageDirs = {ListedPath(k) : k \in 1..N}
        /\ Cardinality(PackageDirs) = N
        /\ \A d \in PackageDirs :
             /\ OneManifest(d)
             /\ FilesIn(Join(d, FILES)) = PayloadPaths(Join(d, FILES), M)
             /\ Cardinality(FilesIn(Join(d, FILES))) = M

C1_Witness == pc = "done" /\ StartedFresh /\ N = 2 /\ M = 1

C1_WitnessNoPayload ==
    pc = "done" /\ StartedFresh /\ N = 1 /\ M = 0
    /\ FilesIn(Join(ListedPath(1), FILES)) = {}

\* C2: after a run that returned normally, packages.txt holds exactly N
\* lines, line k being the path of package k, each ended by a newline, also
\* when packages.txt held other content before the run.
C2_IndexContent ==
    pc = "done" =>
        /\ IndexLines = [k \in 1..N |-> ListedPath(k)]
        /\ Cardinality(NewlineAt(IndexText)) = N
        /\ IndexText[Len(IndexText)] = "\n"

\* A run that found the longer index of the run before it.
C2_Witness ==
    /\ pc = "done"
    /\ N = 1
    /\ prev.pc = "done"
    /\ prev.N = 2
    /\ Len(SplitLines(prev.files[PACKAGES_TXT])) = 2

\* The digits of the current package name, after "pkg".
NameDigits == SubSeq(pkg_name, Len(PKG_PREFIX) + 1, Len(pkg_name))

ExpectedManifest(name) ==
    <<"{","\"","n","a","m","e","\"",":","\"">> \o name \o
    <<"\"",",","\"","v","e","r","s","i","o","n","\"",":","\"",
      "1",".","0",".","0","\"","}","\n">>

\* C3: the name of package i is "pkg" followed by i in decimal, zero-padded
\* on the left to at least 3 digits and never truncated; its manifest is
\* exactly {"name":"<name>","version":"1.0.0"} and a newline; and no two
\* indices share a name.
C3_Names ==
    /\ pc \in {"makedirs", "open_manifest", "write_manifest", "close_manifest",
               "for_j", "write_index"} =>
         /\ SubSeq(pkg_name, 1, 3) = <<"p", "k", "g">>
         /\ \A k \in 1..Len(NameDigits) : NameDigits[k] \in DigitChars
         /\ ParseDecimal(NameDigits) = i
         /\ Len(NameDigits) >= 3
         /\ Len(NameDigits) > 3 => NameDigits[1] # "0"
         /\ pc = "makedirs" => (<<"p","k","g","s","/">> \o pkg_name) \notin dirs
    /\ pc \in {"close_manifest", "for_j", "write_index"} =>
         files[<<"p","k","g","s","/">> \o pkg_name \o
               <<"/","m","a","n","i","f","e","s","t",".","j","s","o","n">>].data
           = ExpectedManifest(pkg_name)

C3_Witness ==
    /\ pc = "write_index"
    /\ i = 1000
    /\ pkg_name = <<"p","k","g","1","0","0","0">>
    /\ Join(PKGS, <<"p","k","g","9","9","9">>) \in dirs

\* The payload files: the files of the files/ directories.
PayloadFiles ==
    {p \in DOMAIN files : Basename(Dirname(p)) = FILES
                          /\ Dirname(Dirname(Dirname(p))) = PKGS}

\* The payload that is open and not yet written.
BeingWritten(p) == pc = "write_bin" /\ p = file_path

\* C4: every payload file that was written has between 1024 and 5120 bytes,
\* for every draw of random.randint(0, 4096).
C4_SizeRange ==
    \A p \in PayloadFiles :
        BeingWritten(p) \/ (files[p].size >= 1024 /\ files[p].size <= 5120)

C4_Witness == \E p \in PayloadFiles : pc = "done" /\ files[p].size = 5120

C4_WitnessMin == \E p \in PayloadFiles : pc = "done" /\ files[p].size = 1024

\* The current run repeats the run before, which returned normally.
SameAgain == runs >= 2 /\ prev.pc = "done" /\ prev.N = N /\ prev.M = M

ManifestPaths == {p \in DOMAIN files : Basename(p) = MANIFEST_JSON}

\* C5: a run with the parameters of the run before, which returned normally,
\* raises nothing because of what that run left (the only exception it can
\* meet is a failure of the operating system), and when it returns the
\* directories, the file names, packages.txt and every manifest are what
\* they were.
C5_Repeat ==
    SameAgain =>
        /\ err \in {"none", "OSError"}
        /\ pc = "done" =>
             /\ dirs = prev.dirs
             /\ DOMAIN files = DOMAIN prev.files
             /\ IndexText = prev.files[PACKAGES_TXT]
             /\ \A p \in ManifestPaths : files[p].data = prev.files[p]

C5_Witness == SameAgain /\ pc = "done" /\ N = 2 /\ M = 1

\* The exception is propagating or has left generate_test_data.
Aborted == pc \in {"unwind", "failed"}

\* C6: when an operation fails the run stops there: the failed operation
\* removes nothing and writes no file, the propagation changes neither the
\* tree nor any file, the run never goes back to the loop, and it ends with
\* the exception raised to the caller.
C6_FailStop ==
    [][/\ (~Aborted /\ pc' = "unwind") =>
            /\ files' = files
            /\ dirs \subseteq dirs'
            /\ err' # "none"
       /\ pc = "unwind" =>
            /\ pc' \in {"unwind", "failed"}
            /\ dirs' = dirs
            /\ files' = files
            /\ err' = err
       /\ pc = "failed" =>
            /\ pc' = "exists"
            /\ runs' = runs + 1
            /\ dirs' = dirs
            /\ files' = files]_vars

\* A run that failed while writing the manifest of its second package.
C6_Witness ==
    /\ pc = "failed"
    /\ err = "OSError"
    /\ i = 2
    /\ manifest_path \in DOMAIN files
    /\ files[manifest_path].size = 0
    /\ Len(IndexLines) = 1

IsPayloadName(b) ==
    /\ Len(b) >= 6
    /\ b[1] = "f"
    /\ SubSeq(b, Len(b) - 3, Len(b)) = <<".", "b", "i", "n">>
    /\ \A k \in 2..(Len(b) - 4) : b[k] \in DigitChars

\* pkgs, pkgs/<pkg> or pkgs/<pkg>/files
OwnDir(p) ==
    \/ p = <<"p","k","g","s">>
    \/ Dirname(p) = <<"p","k","g","s">>
    \/ (Basename(p) = <<"f","i","l","e","s">>
        /\ Dirname(Dirname(p)) = <<"p","k","g","s">>)

\* packages.txt, pkgs/<pkg>/manifest.json or pkgs/<pkg>/files/f<j>.bin
OwnFile(p) ==
    \/ p = <<"p","a","c","k","a","g","e","s",".","t","x","t">>
    \/ (Basename(p) = <<"m","a","n","i","f","e","s","t",".","j","s","o","n">>
        /\ Dirname(Dirname(p)) = <<"p","k","g","s">>)
    \/ (IsPayloadName(Basename(p))
        /\ Basename(Dirname(p)) = <<"f","i","l","e","s">>
        /\ Dirname(Dirname(Dirname(p))) = <<"p","k","g","s">>)

\* C7: every step creates or changes only packages.txt and paths under
\* pkgs/ of the shapes the program uses; no directory and no file is ever
\* removed or renamed, and every other path keeps its content.
C7_Frame ==
    [][/\ dirs \subseteq dirs'
       /\ DOMAIN files \subseteq DOMAIN files'
       /\ \A p \in dirs' \ dirs : OwnDir(p)
       /\ \A p \in DOMAIN files' :
            (p \notin DOMAIN files \/ files'[p] # files[p]) => OwnFile(p)]_vars

C7_Witness ==
    /\ pc = "done"
    /\ N = 2
    /\ M = 1
    /\ runs = 2
    /\ DATA_DIR \in dirs
    /\ files[NOTES_TXT] = NotesFile

\* The current run has opened (and truncated) packages.txt.
IndexOpened ==
    \/ pc \in {"for_i", "fmt", "makedirs", "open_manifest", "write_manifest",
               "close_manifest", "for_j", "open_bin", "write_bin", "close_bin",
               "write_index", "close_index", "done"}
    \/ (Aborted /\ i >= 1)

\* Package k of the current run is complete on disk.
Complete(k) ==
    LET d == ListedPath(k) IN
    /\ d \in dirs
    /\ Join(d, MANIFEST_JSON) \in DOMAIN files
    /\ files[Join(d, MANIFEST_JSON)].data = ExpectedManifest(PkgName(k))
    /\ \A x \in 1..M :
         /\ Join(Join(d, FILES), FileName(x)) \in DOMAIN files
         /\ files[Join(Join(d, FILES), FileName(x))].size >= 1024

\* C8: at every point of a run after the index was opened, also once the
\* run is aborted, the index holds the lines of packages 1..k in order for
\* some k, each ended by a newline, every listed package is complete, and
\* the package being generated is not listed.
C8_IndexPrefix ==
    IndexOpened =>
        /\ Len(IndexLines) <= N
        /\ IndexLines = [k \in 1..Len(IndexLines) |-> ListedPath(k)]
        /\ Cardinality(NewlineAt(IndexText)) = Len(IndexLines)
        /\ \A k \in 1..Len(IndexLines) : Complete(k)
        /\ pc \in {"fmt", "makedirs", "open_manifest", "write_manifest",
                   "close_manifest", "for_j", "open_bin", "write_bin",
                   "close_bin", "write_index"} => Len(IndexLines) = i - 1
        /\ (Aborted /\ i >= 1) => Len(IndexLines) = i - 1

\* A run aborted in its second package, while writing a payload.
C8_Witness ==
    /\ pc = "failed"
    /\ i = 2
    /\ M = 1
    /\ j = 1
    /\ IndexLines = <<ListedPath(1)>>
    /\ file_path \in DOMAIN files

\* C9: at most two handles are open, the index handle first and at most one
\* manifest or payload handle; outside a manifest or payload block only the
\* index handle is open; before the index is opened and once the function
\* has returned or raised, none is.
C9_Handles ==
    /\ Len(handles) <= 2
    /\ Len(handles) >= 1 => handles[1] = PACKAGES_TXT
    /\ Len(handles) = 2 => handles[2] \in {manifest_path, file_path}
    /\ pc \in {"for_i", "fmt", "makedirs", "open_manifest", "for_j", "open_bin",
               "write_index", "close_index"} => handles = <<PACKAGES_TXT>>
    /\ pc = "write_manifest" => handles = <<PACKAGES_TXT, manifest_path>>
    /\ pc = "write_bin" => handles = <<PACKAGES_TXT, file_path>>
    /\ pc \in {"idle", "exists", "mkroot", "open_index", "done", "failed"} =>
         handles = <<>>

\* A run aborted by an error raised inside the payload block.
C9_Witness ==
    /\ pc = "failed"
    /\ i >= 1
    /\ j = 1
    /\ file_path \in DOMAIN files
    /\ files[file_path].size = 0
    /\ handles = <<>>

\* The paths packages.txt lists.
Listed == {IndexLines[k] : k \in 1..Len(IndexLines)}

\* C10 as stated: after successful runs only, the package directories are
\* exactly the N listed ones and each holds one manifest and exactly M
\* payload files, N and M being those of the latest run.
C10_Exact ==
    (pc = "done" /\ prev.clean) =>
        /\ PackageDirs = Listed
        /\ Cardinality(PackageDirs) = N
        /\ \A d \in PackageDirs :
             /\ OneManifest(d)
             /\ FilesIn(Join(d, FILES)) = PayloadPaths(Join(d, FILES), M)

\* C10 amended: after successful runs only, every package directory present
\* holds exactly one manifest, the N listed directories are all present, and
\* every listed directory holds at least the payload files f1.bin .. fM.bin;
\* directories and payload files of earlier runs remain.
C10_AtLeast ==
    (pc = "done" /\ prev.clean) =>
        /\ Listed \subseteq PackageDirs
        /\ Cardinality(Listed) = N
        /\ \A d \in PackageDirs : OneManifest(d)
        /\ \A d \in Listed :
             PayloadPaths(Join(d, FILES), M) \subseteq FilesIn(Join(d, FILES))

\* A second successful run with smaller counts than the first.
C10_Witness ==
    /\ pc = "done"
    /\ prev.clean
    /\ runs = 2
    /\ prev.N = 2
    /\ prev.M = 1
    /\ N = 1
    /\ M = 0
    /\ Cardinality(PackageDirs) = 2

====
